---- MODULE Spec2Model ----
(***************************************************************************)
(* alacritty-circadian: the theme switching daemon of                      *)
(* src/src/alacritty_circadian/alacritty_circadian.py.                     *)
(*                                                                         *)
(* Instants are integers counted in ticks of 1/TicksPerSec second since    *)
(* 00:00 UTC of day 0, so that datetime.now() can fall between two whole   *)
(* seconds and timedelta.seconds truncates as it does in Python.           *)
(* Strings that the program parses (the "time" of a theme) are sequences   *)
(* of one-character strings.                                               *)
(***************************************************************************)
EXTENDS Integers, Sequences, FiniteSets, TLC

VARIABLES
    circadian,      \* the loaded circadian.toml: [themes, coordinates]
    theme_folder,   \* names of the theme files present in theme-folder
    utcoffset,      \* the process's local UTC offset, in minutes east
    clock,          \* the wall clock: what datetime.now(timezone.utc) returns
    config,         \* the LiveConfig document, loaded from alacritty_source
    dest,           \* the content of the file alacritty_dest, a sequence of lines
    lock,           \* the global Lock: the thread holding it, or NoThread
    thread_list,    \* the global list of the cycle's Timer threads
    timers,         \* per Timer: [cancelled, entry, seconds, deadline, applies]
    pc,             \* per thread: its position in the code
    theme_data,     \* per thread: the theme (by name) it applies or, for the wake
                    \* handler, applied last; NoTheme if none
    now_time,       \* per thread: its local variable now_time
    buf,            \* per thread: the text buffered in its open file object
    idx,            \* per thread: the index of its loop over themes / thread_list
    wake_flag,      \* going_to_sleep_flag of the last signal delivered
    cycles,         \* cycles armed so far by the main loop
    signals,        \* PrepareForSleep signals delivered so far
    source_doc,     \* history: the document loaded from alacritty_source
    dest_before,    \* history: dest when the process started
    armed_at_signal,\* history: timers pending when the last signal arrived
    wake_applies    \* history: switch_theme calls of the current wake handler

vars == <<circadian, theme_folder, utcoffset, clock, config, dest, lock,
          thread_list, timers, pc, theme_data, now_time, buf, idx, wake_flag,
          cycles, signals, source_doc, dest_before, armed_at_signal,
          wake_applies>>

----------------------------------------------------------------------------
(* Bounds of the model *)

\* resolution of the clock: ticks per second
TicksPerSec == 2
\* longest schedule drawn for the sequential specification
MaxThemes == 2
\* cycles the main loop arms before the model stops it
MaxCycles == 2
\* PrepareForSleep signals delivered before the model stops them
MaxSignals == 1

(* Program constants *)
SecPerMinute == 60
SecPerHour == 60 * SecPerMinute
SecPerDay == 24 * SecPerHour
DayTicks == SecPerDay * TicksPerSec

MainId == 0
WakeId == 0 - 1
NoThread == 0 - 2
NoTheme == "none"

----------------------------------------------------------------------------
(* datetime / timedelta arithmetic on UTC instants *)

\* an instant at h:m:s UTC of day d
At(d, h, m, s) == (d * SecPerDay + h * SecPerHour + m * SecPerMinute + s) * TicksPerSec

UtcDay(t) == t \div DayTicks
SecondOfDay(t) == (t % DayTicks) \div TicksPerSec
\* datetime.hour and datetime.minute of an aware UTC datetime
Hour(t) == SecondOfDay(t) \div SecPerHour
Minute(t) == (SecondOfDay(t) % SecPerHour) \div SecPerMinute

\* now_time.replace(hour=h, minute=m, second=0, microsecond=0)
ReplaceHM(t, h, m) == At(UtcDay(t), h, m, 0)

\* timedelta(days=1)
OneDay == DayTicks

\* a variant of TimedeltaSeconds that keeps the days and the sign: the whole
\* seconds of timedelta.total_seconds()
TimedeltaTotalSeconds(d) == d \div TicksPerSec

\* timedelta.seconds: a timedelta is normalised to days (of either sign),
\* 0 <= seconds < 86400 and 0 <= microseconds; .seconds drops the days and
\* the microseconds
TimedeltaSeconds(d) == (d % DayTicks) \div TicksPerSec

----------------------------------------------------------------------------
(* Strings the program parses, as sequences of characters *)

DigitChars == <<"0", "1", "2", "3", "4", "5", "6", "7", "8", "9">>
IsDigit(c) == \E i \in 1..Len(DigitChars) : DigitChars[i] = c
DigitVal(c) == (CHOOSE i \in 1..Len(DigitChars) : DigitChars[i] = c) - 1
AllDigits(s) == \A i \in 1..Len(s) : IsDigit(s[i])
\* the value of one or two decimal digits
Number(s) == IF Len(s) = 1 THEN DigitVal(s[1]) ELSE 10 * DigitVal(s[1]) + DigitVal(s[2])

Dawn == <<"d", "a", "w", "n">>
Sunrise == <<"s", "u", "n", "r", "i", "s", "e">>
Noon == <<"n", "o", "o", "n">>
Sunset == <<"s", "u", "n", "s", "e", "t">>
Dusk == <<"d", "u", "s", "k">>
times_of_sun == {Dawn, Sunrise, Noon, Sunset, Dusk}

\* datetime.strptime(s, "%H:%M"): one or two digits of an hour 0..23, a
\* colon, one or two digits of a minute 0..59, and nothing else; a
\* ValueError otherwise
Strptime(s) ==
    LET colons == {k \in 1..Len(s) : s[k] = ":"}
        k == CHOOSE c \in colons : TRUE
        hh == SubSeq(s, 1, k - 1)
        mm == SubSeq(s, k + 1, Len(s))
        wellFormed == /\ Cardinality(colons) = 1
                      /\ Len(hh) \in 1..2 /\ AllDigits(hh) /\ Number(hh) <= 23
                      /\ Len(mm) \in 1..2 /\ AllDigits(mm) /\ Number(mm) <= 59
    IN IF wellFormed
       THEN [ok |-> TRUE, hour |-> Number(hh), minute |-> Number(mm)]
       ELSE [ok |-> FALSE, hour |-> 0, minute |-> 0]

\* astral's sun(obs)[event]: the time of day (UTC, to the second) of a solar
\* event at the configured coordinates, an aware UTC datetime
SunSecondOfDay(event) ==
    CASE event = Dawn    -> 5 * SecPerHour + 31 * SecPerMinute + 7
      [] event = Sunrise -> 6 * SecPerHour + 2 * SecPerMinute + 40
      [] event = Noon    -> 12 * SecPerHour + 10 * SecPerMinute + 15
      [] event = Sunset  -> 18 * SecPerHour + 17 * SecPerMinute + 50
      [] event = Dusk    -> 18 * SecPerHour + 49 * SecPerMinute + 23

\* float(v) of a coordinate: a number, a ValueError for other text, a
\* TypeError for an absent coordinate (None)
Float(v) == CASE v = "number" -> "ok" [] v = "text" -> "ValueError" [] OTHER -> "TypeError"

\* a variant of LocalToUtc that takes the naive datetime as UTC already
LocalToUtcNaive(wall) == wall

\* a naive datetime taken as local time and made aware, then converted to
\* UTC: astimezone(tz=None).astimezone(tz=timezone.utc)
LocalToUtc(wall) == wall - utcoffset * SecPerMinute * TicksPerSec

\* get_theme_time(theme, now_time): status "ok" with the instant, "exit" for
\* sys.exit, "raise" for an uncaught exception
get_theme_time(theme, now) ==
    IF theme.time \in times_of_sun
    THEN LET lat == Float(circadian.coordinates.latitude)
             lon == Float(circadian.coordinates.longitude)
         IN  IF lat = "TypeError" \/ lon = "TypeError"
             THEN [status |-> "raise", t |-> 0]
             ELSE IF lat # "ok" \/ lon # "ok"
             THEN [status |-> "exit", t |-> 0]
             \* an aware datetime: replace() changes its date, the two
             \* astimezone calls keep the instant
             ELSE [status |-> "ok",
                   t |-> UtcDay(now) * DayTicks + SunSecondOfDay(theme.time) * TicksPerSec]
    ELSE LET p == Strptime(theme.time)
         IN  IF ~p.ok
             THEN [status |-> "exit", t |-> 0]
             \* a naive datetime on now_time's (UTC) date, read as local time
             ELSE [status |-> "ok",
                   t |-> LocalToUtc(At(UtcDay(now), p.hour, p.minute, 0))]

----------------------------------------------------------------------------
(* set_appropriate_theme: the selection of the current theme *)

\* a variant of Qualifies in which a tie replaces the preferred theme
QualifiesOnTie(seconds, diff) == seconds > 0 /\ (seconds <= diff \/ diff = -1)

\* a variant of Qualifies with the comparison of line 179 turned round
QualifiesFarthest(seconds, diff) == seconds > 0 /\ (seconds > diff \/ diff = -1)

\* line 179: whether a candidate replaces the preferred theme
Qualifies(seconds, diff) == seconds > 0 /\ (seconds < diff \/ diff = -1)

\* a variant of ElapsedSeconds that takes the whole signed difference
\* (timedelta.total_seconds()) where line 178 takes timedelta.seconds
ElapsedSecondsSigned(theme_time, now) ==
    LET switch_time == ReplaceHM(now, Hour(theme_time), Minute(theme_time))
        delta_t == now - switch_time
    IN  (delta_t \div TicksPerSec) + 1

\* lines 174-178: elapsed seconds since the theme's time of day, plus one
ElapsedSeconds(theme_time, now) ==
    LET switch_time == ReplaceHM(now, Hour(theme_time), Minute(theme_time))
        delta_t == now - switch_time
    IN  TimedeltaSeconds(delta_t) + 1

\* the loop of lines 172-181 from theme i on; preferred = 0 is the unbound
\* variable preferred_theme
RECURSIVE SelectLoop(_, _, _, _)
SelectLoop(i, diff, preferred, now) ==
    IF i > Len(circadian.themes)
    THEN [status |-> "ok", preferred |-> preferred]
    ELSE LET r == get_theme_time(circadian.themes[i], now)
         IN  IF r.status # "ok"
             THEN [status |-> r.status, preferred |-> 0]
             ELSE LET seconds == ElapsedSeconds(r.t, now)
                  IN  IF Qualifies(seconds, diff)
                      THEN SelectLoop(i + 1, seconds, i, now)
                      ELSE SelectLoop(i + 1, diff, preferred, now)

\* set_appropriate_theme(now_time) up to the call of switch_theme: status
\* "ok" with the index and name of the theme to apply, "exit" for sys.exit,
\* "raise" for an uncaught exception (an unbound preferred_theme included)
SelectTheme(now) ==
    IF circadian.themes = <<>>
    THEN [status |-> "exit", preferred |-> 0, name |-> NoTheme]
    ELSE LET r == SelectLoop(1, -1, 0, now)
         IN  IF r.status # "ok"
             THEN [status |-> r.status, preferred |-> 0, name |-> NoTheme]
             ELSE IF r.preferred = 0
             THEN [status |-> "raise", preferred |-> 0, name |-> NoTheme]
             ELSE IF circadian.themes[r.preferred].name \notin theme_folder
             THEN [status |-> "exit", preferred |-> r.preferred, name |-> NoTheme]
             ELSE [status |-> "ok", preferred |-> r.preferred,
                   name |-> circadian.themes[r.preferred].name]

----------------------------------------------------------------------------
(* set_theme_switch_timers: the delay of one theme's timer *)

\* lines 211-228: the next occurrence of the theme's time of day
SwitchTime(theme_time, now) ==
    IF theme_time < now
    THEN ReplaceHM(now, Hour(theme_time), Minute(theme_time)) + OneDay
    ELSE ReplaceHM(now, Hour(theme_time), Minute(theme_time))

\* a variant of TimerSeconds without the one second added in line 230
TimerSecondsNoBias(switch_time, now) == TimedeltaSeconds(switch_time - now)

\* lines 229-230: the timer's interval in seconds
TimerSeconds(switch_time, now) == TimedeltaSeconds(switch_time - now) + 1

\* lines 202-230 for one theme: status "ok" with the interval, or "exit" /
\* "raise" as above
ArmTheme(theme, now) ==
    IF theme.name \notin theme_folder
    THEN [status |-> "exit", seconds |-> 0]
    ELSE LET r == get_theme_time(theme, now)
         IN  IF r.status # "ok"
             THEN [status |-> r.status, seconds |-> 0]
             ELSE [status |-> "ok",
                   seconds |-> TimerSeconds(SwitchTime(r.t, now), now)]

----------------------------------------------------------------------------
(* Documents and files *)

\* the colors block of each theme file
ThemeColors(name) ==
    CASE name = "A" -> <<"a1", "a2">>
      [] name = "B" -> <<"b1">>
      [] name = "C" -> <<"c1", "c2", "c3">>
      [] OTHER      -> <<"d1", "d2">>

\* load_toml of <theme-folder>/<name>.toml
ThemeFile(name) == [font |-> "theme", colors |-> ThemeColors(name)]

\* dump_toml(doc): the lines of the document, each tagged with its key
Serialize(doc) ==
    << <<"font", doc.font>> >> \o [i \in 1..Len(doc.colors) |-> <<"colors", doc.colors[i]>>]

\* what a reader of the file finds under the keys other than colors, and
\* under colors
OtherKeys(file) == SelectSeq(file, LAMBDA l : l[1] # "colors")
ColorsBlock(file) == SelectSeq(file, LAMBDA l : l[1] = "colors")

\* a variant of MergeColors that takes the whole theme document
MergeWholeTheme(cfg, theme) == theme

\* line 102: config["colors"] = theme_data["colors"]
MergeColors(cfg, theme) == [cfg EXCEPT !.colors = theme.colors]

\* line 103: open(alacritty_dest, "w") truncates the file
Truncate(file) == <<>>

\* leaving the with block of line 103 flushes the buffered text to the
\* file at the file object's own position, which is 0
WriteAtStart(file, text) == text \o SubSeq(file, Len(text) + 1, Len(file))

----------------------------------------------------------------------------
(* Threads *)

\* what never changes after the configuration is loaded
loaded == <<circadian, theme_folder, utcoffset, source_doc, dest_before>>

Threads == DOMAIN pc
TimerIds == DOMAIN timers
SwitchPcs == {"merge", "open", "dump", "close"}
\* a timer that will still run its function unless cancelled
Pending(t) == pc[t] \in {"created", "waiting"} /\ ~timers[t].cancelled

\* where a thread continues when switch_theme returns
Returned(p) == IF p = MainId THEN "loop" ELSE IF p = WakeId THEN "idle" ELSE "release"
\* a variant of Raised in which the exception ends a timer thread without
\* the lock being released
RaisedKeepsLock(p) == IF p = MainId THEN "dead" ELSE IF p = WakeId THEN "idle" ELSE "done"

\* where a thread continues when an exception leaves switch_theme: it ends
\* the main thread, is logged by the dbus main loop, and leaves the with
\* block of a timer thread
Raised(p) == IF p = MainId THEN "dead" ELSE IF p = WakeId THEN "idle" ELSE "release"

\* the locals of a thread that has left set_appropriate_theme, and the
\* history of a wake handler that has returned
Forget(f, p, v) == IF p \in {MainId, WakeId} THEN [f EXCEPT ![p] = v] ELSE f

Merge(p) ==
    /\ pc[p] = "merge"
    /\ config' = MergeColors(config, ThemeFile(theme_data[p]))
    /\ pc' = [pc EXCEPT ![p] = "open"]
    /\ wake_applies' = IF p = WakeId THEN wake_applies + 1 ELSE wake_applies
    /\ timers' = IF p \in TimerIds
                 THEN [timers EXCEPT ![p].applies = timers[p].applies + 1]
                 ELSE timers
    /\ UNCHANGED <<loaded, clock, dest, lock, thread_list,
                   theme_data, now_time, buf, idx, wake_flag, cycles, signals,
                   armed_at_signal>>

Open(p) ==
    /\ pc[p] = "open"
    /\ \E writable \in BOOLEAN :
          IF writable
          THEN /\ dest' = Truncate(dest)
               /\ pc' = [pc EXCEPT ![p] = "dump"]
               /\ UNCHANGED <<theme_data, now_time, armed_at_signal, wake_applies>>
          ELSE /\ pc' = [pc EXCEPT ![p] = Raised(p)]
               /\ theme_data' = Forget(theme_data, p, NoTheme)
               /\ now_time' = Forget(now_time, p, 0)
               /\ armed_at_signal' = IF p = WakeId THEN {} ELSE armed_at_signal
               /\ wake_applies' = IF p = WakeId THEN 0 ELSE wake_applies
               /\ UNCHANGED dest
    /\ UNCHANGED <<loaded, clock, config, lock, thread_list, timers, buf, idx, wake_flag,
                   cycles, signals>>

Dump(p) ==
    /\ pc[p] = "dump"
    /\ buf' = [buf EXCEPT ![p] = Serialize(config)]
    /\ pc' = [pc EXCEPT ![p] = "close"]
    /\ UNCHANGED <<loaded, clock, config, dest, lock,
                   thread_list, timers, theme_data, now_time, idx, wake_flag, cycles,
                   signals, armed_at_signal, wake_applies>>

Close(p) ==
    /\ pc[p] = "close"
    /\ dest' = WriteAtStart(dest, buf[p])
    /\ buf' = [buf EXCEPT ![p] = <<>>]
    /\ pc' = [pc EXCEPT ![p] = Returned(p)]
    \* theme_data of the wake handler stays as history: the theme the last
    \* resync applied
    /\ theme_data' = IF p = MainId THEN [theme_data EXCEPT ![p] = NoTheme] ELSE theme_data
    /\ now_time' = Forget(now_time, p, 0)
    /\ armed_at_signal' = IF p = WakeId THEN {} ELSE armed_at_signal
    /\ wake_applies' = IF p = WakeId THEN 0 ELSE wake_applies
    /\ UNCHANGED <<loaded, clock, config, lock, thread_list, timers, idx, wake_flag,
                   cycles, signals>>

\* switch_theme, one step of thread p
switch_theme(p) == Merge(p) \/ Open(p) \/ Dump(p) \/ Close(p)

----------------------------------------------------------------------------
(* The main thread: set_theme_switch_timers *)

\* a variant of MainStart that goes on to the loop without applying the
\* theme it selected
MainStartWithoutApply ==
    /\ pc[MainId] = "start"
    /\ pc' = [pc EXCEPT ![MainId] = IF SelectTheme(clock).status = "ok"
                                    THEN "loop" ELSE "dead"]
    /\ UNCHANGED <<loaded, clock, config, dest, lock, thread_list, timers, theme_data,
                   now_time, buf, idx, wake_flag, cycles, signals, armed_at_signal,
                   wake_applies>>

\* line 197: set_appropriate_theme(datetime.now(timezone.utc)), up to its
\* call of switch_theme
MainStart ==
    /\ pc[MainId] = "start"
    /\ now_time' = [now_time EXCEPT ![MainId] = clock]
    /\ LET r == SelectTheme(clock)
       IN  IF r.status = "ok"
           THEN /\ theme_data' = [theme_data EXCEPT ![MainId] = r.name]
                /\ pc' = [pc EXCEPT ![MainId] = "merge"]
           ELSE /\ pc' = [pc EXCEPT ![MainId] = "dead"]
                /\ UNCHANGED theme_data
    /\ UNCHANGED <<loaded, clock, config, dest, lock, thread_list, timers, buf, idx,
                   wake_flag, cycles, signals, armed_at_signal, wake_applies>>

\* lines 199-200: a pass of the while loop starts
MainLoop ==
    /\ pc[MainId] = "loop"
    /\ cycles < MaxCycles
    /\ cycles' = cycles + 1
    /\ now_time' = [now_time EXCEPT ![MainId] = clock]
    /\ idx' = [idx EXCEPT ![MainId] = 1]
    /\ pc' = [pc EXCEPT ![MainId] = IF circadian.themes = <<>> THEN "join" ELSE "arm"]
    /\ UNCHANGED <<loaded, clock, config, dest, lock, thread_list, timers, theme_data,
                   buf, wake_flag, signals, armed_at_signal, wake_applies>>

\* the identity of the next Timer object
NewTimer == Cardinality(TimerIds) + 1

\* lines 201-232: the timer of theme idx is created and appended
MainArm ==
    /\ pc[MainId] = "arm"
    /\ LET theme == circadian.themes[idx[MainId]]
           r == ArmTheme(theme, now_time[MainId])
       IN  IF r.status = "ok"
           THEN /\ timers' = timers @@ (NewTimer :> [cancelled |-> FALSE,
                                                     entry |-> idx[MainId],
                                                     seconds |-> r.seconds,
                                                     deadline |-> 0,
                                                     applies |-> 0])
                /\ pc' = [pc EXCEPT ![MainId] = "start_timer"] @@ (NewTimer :> "created")
                /\ theme_data' = theme_data @@ (NewTimer :> theme.name)
                /\ buf' = buf @@ (NewTimer :> <<>>)
                /\ thread_list' = Append(thread_list, NewTimer)
           ELSE /\ pc' = [pc EXCEPT ![MainId] = "dead"]
                /\ UNCHANGED <<timers, theme_data, buf, thread_list>>
    /\ UNCHANGED <<loaded, clock, config, dest, lock, now_time, idx, wake_flag, cycles,
                   signals, armed_at_signal, wake_applies>>

\* line 233: timer_thread.start(); the thread waits for its interval from
\* this instant on
MainStartTimer ==
    /\ pc[MainId] = "start_timer"
    /\ LET t == thread_list[Len(thread_list)]
       IN  /\ timers' = [timers EXCEPT ![t].deadline = clock + timers[t].seconds * TicksPerSec]
           /\ pc' = [pc EXCEPT ![t] = "waiting",
                               ![MainId] = IF idx[MainId] < Len(circadian.themes)
                                           THEN "arm" ELSE "join"]
    /\ idx' = [idx EXCEPT ![MainId] = IF idx[MainId] < Len(circadian.themes)
                                      THEN idx[MainId] + 1 ELSE 1]
    /\ UNCHANGED <<loaded, clock, config, dest, lock, thread_list, theme_data, now_time,
                   buf, wake_flag, cycles, signals, armed_at_signal, wake_applies>>

\* a variant of Joined that does not wait for a thread still running
JoinedOrPending(t) == pc[t] \in {"done", "waiting"}

\* thread.join() returns when the thread has ended
Joined(t) == pc[t] = "done"

\* lines 241-242: for thread in thread_list: thread.join(); the loop only
\* reads, and is left when every thread of the list has ended
MainJoin ==
    /\ pc[MainId] = "join"
    /\ \A i \in 1..Len(thread_list) : Joined(thread_list[i])
    /\ pc' = [pc EXCEPT ![MainId] = "clear"]
    /\ UNCHANGED <<loaded, clock, config, dest, lock, thread_list, timers, theme_data,
                   now_time, buf, idx, wake_flag, cycles, signals, armed_at_signal,
                   wake_applies>>

\* a Timer object nothing refers to any more
Garbage == [cancelled |-> FALSE, entry |-> 0, seconds |-> 0, deadline |-> 0, applies |-> 0]
Listed == {thread_list[i] : i \in 1..Len(thread_list)}

\* line 244: thread_list.clear(); the list held the last references to the
\* ended Timer objects
MainClear ==
    /\ pc[MainId] = "clear"
    /\ thread_list' = <<>>
    /\ timers' = [t \in TimerIds |-> IF t \in Listed THEN Garbage ELSE timers[t]]
    /\ theme_data' = [p \in Threads |-> IF p \in Listed THEN NoTheme ELSE theme_data[p]]
    /\ pc' = [pc EXCEPT ![MainId] = "loop"]
    /\ UNCHANGED <<loaded, clock, config, dest, lock, now_time, buf, idx, wake_flag,
                   cycles, signals, armed_at_signal, wake_applies>>

----------------------------------------------------------------------------
(* The Timer threads: threading.Timer.run and thread_switch_theme *)

\* a variant of TimerExpire that does not test whether the timer was
\* cancelled
TimerExpireCancelled(t) ==
    /\ pc[t] = "waiting"
    /\ clock >= timers[t].deadline
    /\ pc' = [pc EXCEPT ![t] = "fired"]
    /\ UNCHANGED <<loaded, clock, config, dest, lock, thread_list, timers, theme_data,
                   now_time, buf, idx, wake_flag, cycles, signals, armed_at_signal,
                   wake_applies>>

\* Timer.run: the interval has elapsed and the timer was not cancelled; the
\* function is called and waits for the lock
TimerExpire(t) ==
    /\ pc[t] = "waiting"
    /\ ~timers[t].cancelled
    /\ clock >= timers[t].deadline
    /\ pc' = [pc EXCEPT ![t] = "fired"]
    /\ UNCHANGED <<loaded, clock, config, dest, lock, thread_list, timers, theme_data,
                   now_time, buf, idx, wake_flag, cycles, signals, armed_at_signal,
                   wake_applies>>

\* Timer.run: the wait ends because the timer was cancelled; the thread ends
\* without calling the function
TimerCancelled(t) ==
    /\ pc[t] = "waiting"
    /\ timers[t].cancelled
    /\ pc' = [pc EXCEPT ![t] = "done"]
    /\ UNCHANGED <<loaded, clock, config, dest, lock, thread_list, timers, theme_data,
                   now_time, buf, idx, wake_flag, cycles, signals, armed_at_signal,
                   wake_applies>>

\* a variant of TimerAcquire that calls switch_theme without the lock
TimerAcquireNoLock(t) ==
    /\ pc[t] = "fired"
    /\ pc' = [pc EXCEPT ![t] = "merge"]
    /\ UNCHANGED <<loaded, clock, config, dest, lock, thread_list, timers, theme_data,
                   now_time, buf, idx, wake_flag, cycles, signals, armed_at_signal,
                   wake_applies>>

\* line 115: with lock
TimerAcquire(t) ==
    /\ pc[t] = "fired"
    /\ lock = NoThread
    /\ lock' = t
    /\ pc' = [pc EXCEPT ![t] = "merge"]
    /\ UNCHANGED <<loaded, clock, config, dest, thread_list, timers, theme_data,
                   now_time, buf, idx, wake_flag, cycles, signals, armed_at_signal,
                   wake_applies>>

\* lines 115-118: the with block is left (switch_theme returned or raised),
\* the lock is released and the thread ends
TimerRelease(t) ==
    /\ pc[t] = "release"
    /\ lock' = NoThread
    /\ pc' = [pc EXCEPT ![t] = "done"]
    /\ UNCHANGED <<loaded, clock, config, dest, thread_list, timers, theme_data,
                   now_time, buf, idx, wake_flag, cycles, signals, armed_at_signal,
                   wake_applies>>

thread_switch_theme(t) == TimerAcquire(t) \/ switch_theme(t) \/ TimerRelease(t)

----------------------------------------------------------------------------
(* The dbus thread: handle_wakeup_callback *)

\* a variant of Resumed that does not look at the flag
ResumedAlways(flag) == TRUE

\* line 248: whether the signal starts a resync
Resumed(flag) == flag = 0

\* logind's PrepareForSleep signal is delivered with its flag (1 before the
\* system sleeps, 0 when it has resumed) and the dbus main loop calls
\* handle_wakeup_callback with it: line 248
WakeSignal(flag) ==
    /\ pc[WakeId] = "idle"
    /\ signals < MaxSignals
    /\ signals' = signals + 1
    /\ wake_flag' = flag
    /\ armed_at_signal' = IF Resumed(flag) THEN {t \in TimerIds : Pending(t)} ELSE {}
    /\ wake_applies' = 0
    /\ pc' = [pc EXCEPT ![WakeId] = IF Resumed(flag) THEN "cancel" ELSE "idle"]
    /\ idx' = [idx EXCEPT ![WakeId] = 1]
    /\ UNCHANGED <<loaded, clock, config, dest, lock, thread_list, timers, theme_data,
                   now_time, buf, cycles>>

\* a variant of WakeCancel that leaves the loop after the first timer
WakeCancelFirstOnly ==
    /\ pc[WakeId] = "cancel"
    /\ IF idx[WakeId] <= Len(thread_list)
       THEN timers' = [timers EXCEPT ![thread_list[idx[WakeId]]].cancelled = TRUE]
       ELSE UNCHANGED timers
    /\ pc' = [pc EXCEPT ![WakeId] = "select"]
    /\ UNCHANGED <<loaded, clock, config, dest, lock, thread_list, theme_data, now_time,
                   buf, idx, wake_flag, cycles, signals, armed_at_signal, wake_applies>>

\* lines 250-251: for thread in thread_list: thread.cancel(); the list
\* iterator reads the list as it is at each step
WakeCancel ==
    /\ pc[WakeId] = "cancel"
    /\ IF idx[WakeId] <= Len(thread_list)
       THEN /\ timers' = [timers EXCEPT ![thread_list[idx[WakeId]]].cancelled = TRUE]
            /\ idx' = [idx EXCEPT ![WakeId] = idx[WakeId] + 1]
            /\ UNCHANGED pc
       ELSE /\ pc' = [pc EXCEPT ![WakeId] = "select"]
            /\ idx' = [idx EXCEPT ![WakeId] = 1]
            /\ UNCHANGED timers
    /\ UNCHANGED <<loaded, clock, config, dest, lock, thread_list, theme_data, now_time,
                   buf, wake_flag, cycles, signals, armed_at_signal, wake_applies>>

\* line 252: set_appropriate_theme(datetime.now(timezone.utc)), up to its
\* call of switch_theme; an exception or sys.exit ends the handler
WakeSelect ==
    /\ pc[WakeId] = "select"
    /\ LET r == SelectTheme(clock)
       IN  IF r.status = "ok"
           THEN /\ now_time' = [now_time EXCEPT ![WakeId] = clock]
                /\ theme_data' = [theme_data EXCEPT ![WakeId] = r.name]
                /\ pc' = [pc EXCEPT ![WakeId] = "merge"]
                /\ UNCHANGED armed_at_signal
           ELSE /\ pc' = [pc EXCEPT ![WakeId] = "idle"]
                /\ armed_at_signal' = {}
                /\ UNCHANGED <<theme_data, now_time>>
    /\ UNCHANGED <<loaded, clock, config, dest, lock, thread_list, timers, buf, idx,
                   wake_flag, cycles, signals, wake_applies>>

handle_wakeup_callback == WakeCancel \/ WakeSelect \/ switch_theme(WakeId)

----------------------------------------------------------------------------
(* Time *)

\* the wall clock advances to the instant a waiting timer's interval ends
\* (not necessarily the earliest one: a thread may run late, the system may
\* have slept); the arming pass of lines 200-233 takes less than a tick
Tick ==
    /\ pc[MainId] \notin {"arm", "start_timer"}
    /\ \E t \in TimerIds : /\ pc[t] = "waiting"
                           /\ timers[t].deadline > clock
                           /\ clock' = timers[t].deadline
    /\ UNCHANGED <<loaded, config, dest, lock, thread_list, timers, pc, theme_data,
                   now_time, buf, idx, wake_flag, cycles, signals, armed_at_signal,
                   wake_applies>>

----------------------------------------------------------------------------
(* Initial states *)

T0905 == <<"9", ":", "0", "5">>
T1000 == <<"1", "0", ":", "0", "0">>
T1400 == <<"1", "4", ":", "0", "0">>
T1800 == <<"1", "8", ":", "0", "0">>
T2400 == <<"2", "4", ":", "0", "0">>

ThemeNames == <<"A", "B", "C", "D", "E">>
\* the themes list whose entries have the given times, named in order
Schedule(times) == [i \in 1..Len(times) |-> [name |-> ThemeNames[i], time |-> times[i]]]

\* the process as it is when main() starts
InitWith(themes, coordinates, folder, offset, instant, source, destination) ==
    /\ circadian = [themes |-> themes, coordinates |-> coordinates]
    /\ theme_folder = folder
    /\ utcoffset = offset
    /\ clock = instant
    /\ config = source
    /\ dest = destination
    /\ lock = NoThread
    /\ thread_list = <<>>
    /\ timers = <<>>
    /\ pc = (MainId :> "start") @@ (WakeId :> "idle")
    /\ theme_data = (MainId :> NoTheme) @@ (WakeId :> NoTheme)
    /\ now_time = (MainId :> 0) @@ (WakeId :> 0)
    /\ buf = (MainId :> <<>>) @@ (WakeId :> <<>>)
    /\ idx = (MainId :> 1) @@ (WakeId :> 1)
    /\ wake_flag = 1
    /\ cycles = 0
    /\ signals = 0
    /\ source_doc = source
    /\ dest_before = destination
    /\ armed_at_signal = {}
    /\ wake_applies = 0

GoodCoordinates == [latitude |-> "number", longitude |-> "number"]
SourceDoc == [font |-> "mono", colors |-> <<"old">>]
\* a destination file that is not the source file
OtherDest == Serialize([font |-> "serif", colors |-> <<"old", "older">>])

\* the daemon with a valid configuration and a destination file of its own,
\* started at 09:00 UTC of day 1 in UTC, or at 12:30:00.5 UTC two hours
\* east of it
Init ==
    \E start \in {<<0, At(1, 9, 0, 0)>>, <<120, At(1, 12, 30, 0) + 1>>} :
        InitWith(Schedule(<<T1000, T1800>>), GoodCoordinates, {"A", "B"}, start[1],
                 start[2], SourceDoc, OtherDest)

Next ==
    \/ MainStart
    \/ switch_theme(MainId)
    \/ MainLoop
    \/ MainArm
    \/ MainStartTimer
    \/ MainJoin
    \/ MainClear
    \/ \E t \in TimerIds : TimerExpire(t)
    \/ \E t \in TimerIds : TimerCancelled(t)
    \/ \E t \in TimerIds : thread_switch_theme(t)
    \/ \E flag \in {0, 1} : WakeSignal(flag)
    \/ handle_wakeup_callback
    \/ Tick

Spec == Init /\ [][Next]_vars

\* the steps of the main thread
set_theme_switch_timers ==
    \/ MainStart
    \/ switch_theme(MainId)
    \/ MainLoop
    \/ MainArm
    \/ MainStartTimer
    \/ MainJoin
    \/ MainClear

\* the steps of the Timer threads
TimerThreads ==
    \E t \in TimerIds : TimerExpire(t) \/ TimerCancelled(t) \/ thread_switch_theme(t)

\* a step of the program or of the clock; the arrival of a signal is left to
\* the environment
Scheduled ==
    \/ set_theme_switch_timers
    \/ TimerThreads
    \/ handle_wakeup_callback
    \/ Tick

\* as long as a thread can take a step or a timer's interval can end, one
\* does; every thread takes finitely many steps per cycle, so that this
\* leaves no thread that can run unscheduled for ever
Fairness == WF_vars(Scheduled)

LiveSpec == Spec /\ Fairness

----------------------------------------------------------------------------
(* The main thread alone, from startup to the end of its first arming      *)
(* pass, over every schedule, offset, instant and environment of the       *)
(* bounded sets below                                                      *)

TimeSpecs == {T0905, T1000, T1400, T1800, Dusk, T2400}
Schedules ==
    {<<>>, Schedule(<<T1000, T1400, T1800>>)}
    \cup UNION {{Schedule(times) : times \in [1..n -> TimeSpecs]} : n \in 1..MaxThemes}
Offsets == {0 - 300, 0, 120}
Instants ==
    {At(1, 0, 1, 0), At(1, 9, 0, 0), At(1, 14, 0, 0), At(1, 14, 0, 0) + 1,
     At(1, 15, 0, 0), At(1, 18, 49, 10), At(1, 23, 59, 59) + 1}
AllThemes == {ThemeNames[i] : i \in 1..Len(ThemeNames)}
Environments ==
    {<<GoodCoordinates, AllThemes>>,
     <<GoodCoordinates, AllThemes \ {"A"}>>,
     <<[latitude |-> "text", longitude |-> "number"], AllThemes>>,
     <<[latitude |-> "number", longitude |-> "absent"], AllThemes>>}

SeqInit ==
    \E themes \in Schedules, offset \in Offsets, instant \in Instants,
       env \in Environments, destination \in {Serialize(SourceDoc), OtherDest} :
        InitWith(themes, env[1], env[2], offset, instant, SourceDoc, destination)

SeqNext ==
    \/ MainStart
    \/ switch_theme(MainId)
    \/ MainLoop
    \/ MainArm
    \/ MainStartTimer

SeqSpec == SeqInit /\ [][SeqNext]_vars

----------------------------------------------------------------------------
(* What the properties below speak of *)

OffsetTicks == utcoffset * SecPerMinute * TicksPerSec
\* the local time of day of an instant, in ticks since local midnight
LocalTimeOfDay(t) == (t + OffsetTicks) % DayTicks

\* whether get_theme_time can resolve the entry
Resolvable(entry) ==
    IF entry.time \in times_of_sun
    THEN circadian.coordinates = GoodCoordinates
    ELSE Strptime(entry.time).ok

\* a schedule the daemon runs with: not empty, every entry resolvable and
\* its theme file installed
ValidConfig ==
    /\ circadian.themes # <<>>
    /\ \A i \in 1..Len(circadian.themes) :
          Resolvable(circadian.themes[i]) /\ circadian.themes[i].name \in theme_folder

\* the time of day of a schedule entry: its hour and minute on the local
\* clock, in ticks since local midnight
TimeOfDay(entry) ==
    IF entry.time \in times_of_sun
    THEN LET local == (SunSecondOfDay(entry.time) + utcoffset * SecPerMinute) % SecPerDay
         IN  (local - (local % SecPerMinute)) * TicksPerSec
    ELSE LET p == Strptime(entry.time)
         IN  (p.hour * SecPerHour + p.minute * SecPerMinute) * TicksPerSec

Entries == 1..Len(circadian.themes)
EntryNamed(name) == CHOOSE i \in Entries : circadian.themes[i].name = name
\* the entries whose time of day is at or before that of the instant
Occurred(now) == {i \in Entries : TimeOfDay(circadian.themes[i]) <= LocalTimeOfDay(now)}
Latest(S) == {i \in S : \A j \in S : TimeOfDay(circadian.themes[j]) <= TimeOfDay(circadian.themes[i])}

\* the first instant at or after now at which the local clock shows the
\* entry's time of day
NextOccurrence(entry, now) ==
    LET days == (UtcDay(now) - 2)..(UtcDay(now) + 2)
        occurrences == {d * DayTicks + TimeOfDay(entry) - OffsetTicks : d \in days}
        coming == {x \in occurrences : x >= now}
    IN  CHOOSE x \in coming : \A y \in coming : x <= y

----------------------------------------------------------------------------
(* Properties *)

\* C3: with a non-empty schedule of which at least one entry's time of day
\* is at or before that of now, set_appropriate_theme selects an entry whose
\* time of day is the latest one not after now; an entry whose time of day
\* equals now exactly is among those that have occurred.
C3_SelectsLatestOccurred ==
    (pc[MainId] = "merge" /\ Occurred(now_time[MainId]) # {})
        => EntryNamed(theme_data[MainId]) \in Latest(Occurred(now_time[MainId]))

\* the schedule 10:00 / 14:00 / 18:00 at 15:00 local time selects the 14:00
\* entry
C3_Witness ==
    /\ circadian.themes = Schedule(<<T1000, T1400, T1800>>)
    /\ utcoffset = 0
    /\ pc[MainId] = "merge"
    /\ now_time[MainId] = At(1, 15, 0, 0)
    /\ theme_data[MainId] = "B"

\* C4: with a valid schedule whose every entry has a time of day later than
\* that of now, the selection at startup does not end the main thread: it
\* selects an entry with the largest time of day.
C4_WrapsToLargest ==
    [][(pc[MainId] = "start" /\ pc'[MainId] # "start"
        /\ ValidConfig /\ Occurred(clock) = {})
       => /\ pc'[MainId] = "merge"
          /\ EntryNamed(theme_data'[MainId]) \in Latest(Entries)]_vars

\* started at 00:01 local time with themes at 10:00 and 18:00, the 18:00
\* theme is selected
C4_Witness ==
    /\ circadian.themes = Schedule(<<T1000, T1800>>)
    /\ utcoffset = 0
    /\ ValidConfig
    /\ now_time[MainId] = At(1, 0, 1, 0)
    /\ pc[MainId] = "merge"
    /\ theme_data[MainId] = "B"

\* C5: every timer is armed with the whole seconds from now to the next
\* occurrence of its entry's time of day (today if not yet passed, else one
\* calendar day later at the same clock time) plus one, which lies in
\* 1..86400.
C5_TimerDelay ==
    \A t \in TimerIds :
        pc[t] \in {"created", "waiting"} =>
            LET entry == circadian.themes[timers[t].entry]
                now == now_time[MainId]
            IN  /\ timers[t].seconds
                     = ((NextOccurrence(entry, now) - now) \div TicksPerSec) + 1
                /\ timers[t].seconds \in 1..SecPerDay

\* a timer for a time of day already past now (14:00, armed at 15:00) is set
\* to 23 hours and one second
C5_Witness ==
    \E t \in TimerIds :
        /\ pc[t] = "waiting"
        /\ circadian.themes[timers[t].entry].time = T1400
        /\ utcoffset = 0
        /\ now_time[MainId] = At(1, 15, 0, 0)
        /\ timers[t].seconds = 23 * SecPerHour + 1

\* the entries whose turn it is at the instant: the latest of those that
\* have occurred today, else the latest of all (yesterday's last)
Due(now) == IF Occurred(now) # {} THEN Latest(Occurred(now)) ELSE Latest(Entries)
DueNames(now) == {circadian.themes[i].name : i \in Due(now)}

\* the file a single whole write of LiveConfig with the theme leaves
Written(name) == Serialize([source_doc EXCEPT !.colors = ThemeColors(name)])
InSwitch == {p \in Threads : pc[p] \in SwitchPcs}

\* once no application is under way, a destination that was written holds
\* LiveConfig with exactly one theme's color block in full
DestinationWhole ==
    (InSwitch = {} /\ dest # dest_before)
        => \E i \in Entries : dest = Written(circadian.themes[i].name)

\* C1: every theme application mutates LiveConfig and writes the destination
\* only while holding the lock, at most one application is inside merge and
\* write at a time, and once the applications have completed the
\* destination holds exactly one theme's color block in full.
C1_ApplyUnderLock ==
    /\ \A p \in InSwitch : lock = p
    /\ Cardinality(InSwitch) <= 1
    /\ DestinationWhole

\* the wake handler leaves switch_theme and returns
WakeReturns == pc[WakeId] \in SwitchPcs /\ pc'[WakeId] = "idle"

\* C2: when handle_wakeup_callback returns after a resumed signal, no timer
\* that was armed when the signal arrived is still pending, and the handler
\* has applied exactly one theme, the one due at the instant it read.
C2_ResyncCancelsAll ==
    [][WakeReturns =>
          /\ \A t \in armed_at_signal : ~Pending(t)
          /\ wake_applies = 1
          /\ theme_data[WakeId] \in DueNames(now_time[WakeId])]_vars

\* a resync that found two timers armed is about to return, both cancelled
C2_Witness ==
    /\ pc[WakeId] = "close"
    /\ Cardinality(armed_at_signal) = 2
    /\ \A t \in armed_at_signal : timers[t].cancelled
    /\ wake_applies = 1

\* C6: the main loop starts arming only with the timer list empty and every
\* timer of the cycle before ended: a timer that has not ended is in the
\* list, and the main loop is arming or waiting for it.
C6_NoCycleOverlap ==
    /\ pc[MainId] = "loop" => thread_list = <<>>
    /\ \A t \in TimerIds :
          pc[t] # "done" => t \in Listed /\ pc[MainId] \in {"arm", "start_timer", "join"}

\* the second cycle is being armed after the first has completed
C6_Witness ==
    /\ cycles = 2
    /\ pc[MainId] = "start_timer"
    /\ Len(thread_list) = 1
    /\ Cardinality(TimerIds) = 3
    /\ \A t \in TimerIds \ Listed : pc[t] = "done"

FailedWrite(p) == pc[p] = "open" /\ pc'[p] \notin {"open", "dump"}

\* C8: a failed write of the destination does not end the main thread,
\* wherever it occurs.
C8_WriteFailureNotFatal ==
    [][\A p \in Threads : FailedWrite(p) => pc'[MainId] # "dead"]_vars

\* C9: no timer exists before the startup apply has completed: while the
\* main thread is at or in its startup apply, of a theme due at the start
\* instant, there is no timer, and once there is one LiveConfig and the
\* destination have been written.
C9_InitialApplyFirst ==
    /\ pc[MainId] \in {"start"} \cup SwitchPcs => TimerIds = {} /\ thread_list = <<>>
    /\ pc[MainId] \in SwitchPcs => theme_data[MainId] \in DueNames(now_time[MainId])
    /\ TimerIds # {} => config.colors # source_doc.colors /\ dest # dest_before

\* the first timer has been created after the startup apply wrote theme B
C9_Witness ==
    /\ cycles = 1
    /\ signals = 0
    /\ pc[MainId] = "start_timer"
    /\ Cardinality(TimerIds) = 1
    /\ dest = Written("B")

\* C10: a signal with the about-to-sleep flag set cancels no timer, applies
\* no theme and leaves the timer list, the timers, LiveConfig and the
\* destination unchanged.
C10_SleepSignalIgnored ==
    [][(signals' # signals /\ wake_flag' # 0)
          => /\ pc'[WakeId] = "idle"
             /\ UNCHANGED <<thread_list, timers, config, dest, theme_data, buf, lock>>]_vars

\* an about-to-sleep signal was delivered while both timers were pending
C10_Witness ==
    /\ signals = 1
    /\ wake_flag = 1
    /\ pc[WakeId] = "idle"
    /\ Cardinality({t \in TimerIds : Pending(t)}) = 2

----------------------------------------------------------------------------
(* get_theme_time on the clock-time path *)

\* an instant as the process's local wall clock shows it: the naive local
\* datetime of astimezone(tz=None), in ticks since local midnight of day 0
UtcToLocal(t) == t + OffsetTicks
LocalDay(t) == UtcToLocal(t) \div DayTicks

\* the entries with a valid HH:MM string
ClockEntries ==
    {i \in Entries : circadian.themes[i].time \notin times_of_sun
                     /\ Strptime(circadian.themes[i].time).ok}
\* the main thread has called get_theme_time with its now_time for the
\* entries of the schedule
MainResolved == pc[MainId] \in {"merge", "start_timer"}
ThemeTime(i) == get_theme_time(circadian.themes[i], now_time[MainId]).t

\* C11: for every valid HH:MM string and every reference instant, the
\* instant get_theme_time returns, shown on the local wall clock, has the
\* hour and the minute of the string.
C11_ClockRoundTrip ==
    MainResolved =>
        \A i \in ClockEntries :
            LET p == Strptime(circadian.themes[i].time)
                wall == UtcToLocal(ThemeTime(i))
            IN  /\ get_theme_time(circadian.themes[i], now_time[MainId]).status = "ok"
                /\ Hour(wall) = p.hour
                /\ Minute(wall) = p.minute
                /\ wall % (SecPerMinute * TicksPerSec) = 0

\* "9:05" resolved two hours east of UTC is 07:05 UTC
C11_Witness ==
    /\ MainResolved
    /\ utcoffset = 120
    /\ \E i \in ClockEntries :
          /\ circadian.themes[i].time = T0905
          /\ ThemeTime(i) = At(UtcDay(now_time[MainId]), 7, 5, 0)

\* C17: for every clock string and every reference instant, the instant
\* get_theme_time returns falls on the calendar date of the reference
\* instant, both taken in the process's local time zone.
C17_SameLocalDate ==
    MainResolved =>
        \A i \in ClockEntries : LocalDay(ThemeTime(i)) = LocalDay(now_time[MainId])

----------------------------------------------------------------------------
(* set_appropriate_theme: ties and entries still to come *)

\* the elapsed seconds line 178 computes for entry i at the main thread's
\* now_time
Elapsed(i) == ElapsedSeconds(ThemeTime(i), now_time[MainId])

\* C16: when entries have the same elapsed seconds, the selection returns
\* the one that appears first in the schedule: no entry before the selected
\* one has the same elapsed seconds.
C16_FirstOfTies ==
    pc[MainId] = "merge" =>
        LET sel == EntryNamed(theme_data[MainId])
        IN  \A j \in Entries : Elapsed(j) = Elapsed(sel) => sel <= j

\* of two entries at 10:00 the first is selected, at 15:00
C16_Witness ==
    /\ pc[MainId] = "merge"
    /\ circadian.themes = Schedule(<<T1000, T1000>>)
    /\ now_time[MainId] = At(1, 15, 0, 0)
    /\ Elapsed(1) = Elapsed(2)
    /\ theme_data[MainId] = "A"

\* the selection fails with preferred_theme unbound
Unbound(now) == circadian.themes # <<>> /\ SelectLoop(1, 0 - 1, 0, now) = [status |-> "ok", preferred |-> 0]

\* C18 as the specification has it: when the time of day of every entry is
\* still to come, no entry qualifies and set_appropriate_theme fails with
\* preferred_theme unbound.
C18_FutureOnlyUnbound ==
    [][(pc[MainId] = "start" /\ pc'[MainId] # "start"
        /\ ValidConfig /\ Occurred(clock) = {})
       => Unbound(clock) /\ pc'[MainId] = "dead"]_vars

\* C18: the elapsed seconds of every candidate lie in 1..86400, so that the
\* test seconds > 0 of line 179 holds for each, entries still to come
\* included; with a non-empty schedule whose entries resolve, the first
\* entry binds preferred_theme and the call never fails with it unbound.
C18_EveryCandidateQualifies ==
    [][(pc[MainId] = "start" /\ pc'[MainId] # "start")
       => /\ \A i \in Entries :
                get_theme_time(circadian.themes[i], clock).status = "ok"
                    => LET seconds == ElapsedSeconds(get_theme_time(circadian.themes[i], clock).t, clock)
                       IN  seconds \in 1..SecPerDay /\ Qualifies(seconds, 0 - 1)
          /\ ~Unbound(clock)
          /\ (ValidConfig /\ Occurred(clock) = {}) => pc'[MainId] = "merge"]_vars

\* at 09:00 a schedule whose only entry is at 14:00 selects that entry
C18_Witness ==
    /\ circadian.themes = Schedule(<<T1400>>)
    /\ utcoffset = 0
    /\ ValidConfig
    /\ now_time[MainId] = At(1, 9, 0, 0)
    /\ Occurred(now_time[MainId]) = {}
    /\ pc[MainId] = "merge"
    /\ theme_data[MainId] = "A"

----------------------------------------------------------------------------
(* The timer list, the timers and the wake handler *)

\* the timers of the list that the wake handler has cancelled, and those it
\* has not
ListedCancelled == {t \in Listed : timers[t].cancelled}
\* a timer whose function has been called and has not returned
InFlightPcs == {"fired", "release"} \cup SwitchPcs

\* C12: the cancellation pass of the wake handler does not interleave with
\* the arming of a cycle: the main loop never waits for a cycle of which the
\* wake handler, its pass over, has cancelled a timer while a timer armed
\* after that one is still pending.
C12_CancelPassAtomic ==
    ~ /\ pc[MainId] = "join"
      /\ pc[WakeId] # "cancel"
      /\ \E t1 \in ListedCancelled, t2 \in Listed \ ListedCancelled :
            t1 < t2 /\ Pending(t2)

\* C14: each cycle arms one timer per schedule entry, in order, with that
\* entry's theme; a timer is inside switch_theme only while holding the
\* lock; and when the main loop has waited for a cycle none of whose timers
\* was cancelled, every timer has ended having applied its theme once.
C14_OneTimerPerEntry ==
    /\ pc[MainId] \in {"join", "clear"} =>
          /\ Len(thread_list) = Len(circadian.themes)
          /\ \A i \in 1..Len(thread_list) :
                /\ timers[thread_list[i]].entry = i
                /\ theme_data[thread_list[i]] = circadian.themes[i].name
    /\ \A t \in TimerIds : pc[t] \in SwitchPcs \cup {"release"} => lock = t
    /\ (pc[MainId] = "clear" /\ ListedCancelled = {}) =>
          \A t \in Listed : pc[t] = "done" /\ timers[t].applies = 1

\* the main loop has waited for a cycle of two timers during which no signal
\* arrived; each has applied its theme once
C14_Witness ==
    /\ pc[MainId] = "clear"
    /\ signals = 0
    /\ Len(thread_list) = 2
    /\ \A t \in Listed : timers[t].applies = 1

\* C15: a timer cancelled before its function is called never applies its
\* theme (one cancelled between append and start included); a timer whose
\* function has been called when it is cancelled goes on to the end of the
\* function; no timer applies its theme more than once.
C15_CancelAtMostOnce ==
    /\ [](\A t \in TimerIds :
            /\ timers[t].applies <= 1
            /\ (timers[t].cancelled /\ pc[t] \in {"created", "waiting"})
                  => timers[t].applies = 0)
    /\ [][\A t \in TimerIds :
            /\ (timers[t].cancelled /\ pc[t] \in {"created", "waiting"})
                  => pc'[t] \in {"created", "waiting", "done"} /\ timers'[t].applies = 0
            /\ (pc[t] \in InFlightPcs /\ pc'[t] # pc[t])
                  => /\ pc'[t] \in InFlightPcs \cup {"done"}
                     /\ pc'[t] = "done" => pc[t] = "release" /\ timers[t].applies = 1
            /\ (pc[t] \in InFlightPcs /\ timers'[t].cancelled /\ ~timers[t].cancelled)
                  => pc'[t] = pc[t]]_vars

\* of a cycle's two cancelled timers one has ended without applying its
\* theme and the other, cancelled after its function was called, is about
\* to write
C15_Witness ==
    \E t1 \in ListedCancelled, t2 \in ListedCancelled :
        /\ pc[t1] = "done" /\ timers[t1].applies = 0
        /\ pc[t2] = "close" /\ timers[t2].applies = 1

\* the last resync has returned from its apply
ResyncDone ==
    /\ signals > 0
    /\ wake_flag = 0
    /\ pc[WakeId] = "idle"
    /\ theme_data[WakeId] # NoTheme

\* C19: a timer whose function had been called when the wake handler
\* cancelled it never merges, after the resync has applied its theme, a
\* theme other than the one the resync selected.
C19_NoStaleOverwrite ==
    [][\A t \in TimerIds :
          (pc[t] = "merge" /\ pc'[t] = "open" /\ timers[t].cancelled /\ ResyncDone)
              => theme_data[t] = theme_data[WakeId]]_vars

----------------------------------------------------------------------------
(* Progress *)

\* the main loop is in its joins and every timer of the list has fired or
\* been cancelled
WaitResolved == pc[MainId] = "join" /\ \A t \in Listed : ~Pending(t)

\* C20: the lock is held only by a timer thread inside the with block of
\* line 115, so that a thread that left it, by return or by exception, does
\* not hold it; every timer whose function was called acquires the lock in
\* the end; and the joins of the main loop return once every timer of the
\* list has fired or been cancelled.
C20_NoDeadlock ==
    /\ [](lock # NoThread =>
             lock \in TimerIds /\ pc[lock] \in SwitchPcs \cup {"release"})
    /\ []<>(\A t \in TimerIds : pc[t] # "fired")
    /\ []<>(~WaitResolved)

\* a timer waits for the lock while the other, whose open of the
\* destination raised, is about to release it
C20_Witness ==
    \E t1 \in TimerIds, t2 \in TimerIds :
        /\ pc[t1] = "fired"
        /\ pc[t2] = "release" /\ lock = t2
        /\ signals = 0
        /\ config.colors = ThemeColors(theme_data[t2])
        /\ ColorsBlock(dest) # ColorsBlock(Written(theme_data[t2]))

\* C13: after a resumed signal the main loop comes to arm a fresh cycle: it
\* starts a pass of its loop after the signal, which reads now_time, and
\* arms one timer per schedule entry.
C13_FreshCycleAfterWake ==
    \A c \in 0..(MaxCycles - 1) :
        (pc[WakeId] = "cancel" /\ cycles = c)
            ~> (cycles > c /\ pc[MainId] = "join"
                /\ Len(thread_list) = Len(circadian.themes))

====
